---- MODULE Spec2Model ----
(***************************************************************************)
(* A model of the paint program's Canvas widget (src/ui/canvas.py) and of  *)
(* the PhotoEditor commands that act on it (src/ui/menus.py).              *)
(*                                                                         *)
(* Conventions                                                             *)
(*   - a QPoint is a pair <<x, y>>; Python's None for a point is <<>>;     *)
(*   - a QImage is a record [w, h, px], px a function from <<x, y>> to a   *)
(*     colour; the null QImage has w = h = 0; Python's None for an image   *)
(*     is NoImage;                                                         *)
(*   - a Python float scale is the exact rational <<n, d>> in lowest       *)
(*     terms;                                                              *)
(*   - Qt's smooth resampling is modelled as nearest-sample resampling:    *)
(*     the sizes are Qt's, the colour blending is not modelled.            *)
(***************************************************************************)
EXTENDS Integers, Sequences, FiniteSets, TLC

(***************************************************************************)
(* Bounds of the model.                                                    *)
(***************************************************************************)
\* The widget and the first image are CanvasW x CanvasH (800 x 600 in the source).
CanvasW == 3
CanvasH == 2
\* A lasso or polygon path is followed up to MaxPath points.
MaxPath == 3
\* A session is followed for MaxSteps commands and pointer presses.
MaxSteps == 4
\* An image is followed while its sides are at most MaxSide.
MaxSide == 18

(***************************************************************************)
(* Numbers.                                                                *)
(***************************************************************************)
Abs(a) == IF a < 0 THEN -a ELSE a

Min(a, b) == IF a <= b THEN a ELSE b

Max(a, b) == IF a >= b THEN a ELSE b

\* Python's int() of the quotient a / b, b > 0: truncation towards zero.
TruncDiv(a, b) == IF a >= 0 THEN a \div b ELSE -((-a) \div b)

RECURSIVE Gcd(_, _)
Gcd(a, b) == IF b = 0 THEN a ELSE Gcd(b, a % b)

\* The rational n / d, d > 0, in lowest terms.
Rat(n, d) == LET g == Gcd(Abs(n), d) IN <<n \div g, d \div g>>

RatMul(p, q) == Rat(p[1] * q[1], p[2] * q[2])

RatLess(p, q) == p[1] * q[2] < q[1] * p[2]

RatMin(p, q) == IF RatLess(q, p) THEN q ELSE p

RatMax(p, q) == IF RatLess(p, q) THEN q ELSE p

(***************************************************************************)
(* Points and rectangles (QPoint, QRect).                                  *)
(***************************************************************************)
None == <<>>

\* bool(QPoint): PyQt's QPoint.__bool__ is "not isNull()", and QPoint(0, 0) is null.
PointTruthy(p) == p # None /\ p # <<0, 0>>

PointAdd(p, q) == <<p[1] + q[1], p[2] + q[2]>>

PointSub(p, q) == <<p[1] - q[1], p[2] - q[2]>>

\* QRect(x, y, w, h); QRect() is the null rectangle.
QRect(x, y, w, h) == [x |-> x, y |-> y, w |-> w, h |-> h]

NullRect == QRect(0, 0, 0, 0)

RectIsValid(r) == r.w > 0 /\ r.h > 0

\* QRect.contains(p): false for the null rectangle, edges included.
RectContains(r, p) ==
    /\ ~(r.w = 0 /\ r.h = 0)
    /\ r.x <= p[1] /\ p[1] <= r.x + r.w - 1
    /\ r.y <= p[2] /\ p[2] <= r.y + r.h - 1

(***************************************************************************)
(* Images (QImage).                                                        *)
(***************************************************************************)
White == "W"
Black == "B"
Transparent == "T"

Pixels(w, h) == (0 .. w - 1) \X (0 .. h - 1)

NullImage == [w |-> 0, h |-> 0, px |-> <<>>]

NoImage == [w |-> -1, h |-> -1, px |-> <<>>]

IsNull(img) == img.w = 0 /\ img.h = 0

\* QImage(w, h, format) followed by fill(colour).
Filled(w, h, colour) == [w |-> w, h |-> h, px |-> [p \in Pixels(w, h) |-> colour]]

Fill(img, colour) == Filled(img.w, img.h, colour)

InImage(img, p) == p[1] >= 0 /\ p[1] < img.w /\ p[2] >= 0 /\ p[2] < img.h

\* QImage.copy(rect): the null rectangle copies the whole image; what lies
\* outside the image is the zero pixel, black in an RGB image.
Copy(img, r) ==
    IF IsNull(img) THEN NullImage
    ELSE IF r.w = 0 /\ r.h = 0 THEN img
    ELSE IF r.w <= 0 \/ r.h <= 0 THEN NullImage
    ELSE [w |-> r.w, h |-> r.h,
          px |-> [p \in Pixels(r.w, r.h) |->
                    LET q == <<p[1] + r.x, p[2] + r.y>>
                    IN IF InImage(img, q) THEN img.px[q] ELSE Black]]

\* QSize.scaled(w, h, Qt.KeepAspectRatio) of the size sw x sh.
FitSize(sw, sh, w, h) ==
    IF sw = 0 \/ sh = 0 THEN <<w, h>>
    ELSE LET rw == (h * sw) \div sh
         IN IF rw <= w THEN <<rw, h>> ELSE <<w, (w * sh) \div sw>>

\* The resampling of img to w x h.
Resample(img, w, h) ==
    [w |-> w, h |-> h,
     px |-> [p \in Pixels(w, h) |->
               img.px[<<(p[1] * img.w) \div w, (p[2] * img.h) \div h>>]]]

\* QImage.scaled(w, h, Qt.KeepAspectRatio, Qt.SmoothTransformation).
Scaled(img, w, h) ==
    IF IsNull(img) \/ w <= 0 \/ h <= 0 THEN NullImage
    ELSE LET f == FitSize(img.w, img.h, w, h)
             nw == Max(f[1], 1)
             nh == Max(f[2], 1)
         IN IF nw = img.w /\ nh = img.h THEN img ELSE Resample(img, nw, nh)

\* QImage.transformed(QTransform().rotate(90)): a quarter turn clockwise.
Rotated90(img) ==
    [w |-> img.h, h |-> img.w,
     px |-> [p \in Pixels(img.h, img.w) |-> img.px[<<p[2], img.h - 1 - p[1]>>]]]

\* QImage.transformed(QTransform().rotate(-90)): a quarter turn counterclockwise.
Rotated90cc(img) ==
    [w |-> img.h, h |-> img.w,
     px |-> [p \in Pixels(img.h, img.w) |-> img.px[<<img.w - 1 - p[2], p[1]>>]]]

\* QImage.mirrored(vertical, horizontal).
Mirrored(img, vertical, horizontal) ==
    [w |-> img.w, h |-> img.h,
     px |-> [p \in Pixels(img.w, img.h) |->
               img.px[<<IF horizontal THEN img.w - 1 - p[1] ELSE p[1],
                        IF vertical THEN img.h - 1 - p[2] ELSE p[2]>>]]]

\* QPainter(dst).drawImage(at, src), composition mode SourceOver.
DrawImage(dst, at, src) ==
    [dst EXCEPT !.px =
        [p \in Pixels(dst.w, dst.h) |->
            LET q == PointSub(p, at)
            IN IF InImage(src, q) /\ src.px[q] # Transparent
               THEN src.px[q] ELSE dst.px[p]]]

\* drawImage(at, src) under CompositionMode_Source.
DrawImageSource(dst, at, src) ==
    [dst EXCEPT !.px =
        [p \in Pixels(dst.w, dst.h) |->
            LET q == PointSub(p, at)
            IN IF InImage(src, q) THEN src.px[q] ELSE dst.px[p]]]

\* drawImage(at, src) under CompositionMode_DestinationIn: the destination
\* is kept where the source is opaque.
DrawImageDestinationIn(dst, at, src) ==
    [dst EXCEPT !.px =
        [p \in Pixels(dst.w, dst.h) |->
            LET q == PointSub(p, at)
            IN IF ~InImage(src, q) THEN dst.px[p]
               ELSE IF src.px[q] # Transparent THEN dst.px[p] ELSE Transparent]]

\* QPainter(dst).fillRect(r, colour) under CompositionMode_Source.
FillRect(dst, r, colour) ==
    [dst EXCEPT !.px =
        [p \in Pixels(dst.w, dst.h) |->
            IF r.x <= p[1] /\ p[1] < r.x + r.w /\ r.y <= p[2] /\ p[2] < r.y + r.h
            THEN colour ELSE dst.px[p]]]

\* Whether the centre of pixel p lies to the left of the edge a -> b on the
\* horizontal through it (coordinates doubled: the centre of p is 2p + 1).
EdgeCrossed(p, a, b) ==
    LET cx == 2 * p[1] + 1
        cy == 2 * p[2] + 1
        ax == 2 * a[1]
        ay == 2 * a[2]
        bx == 2 * b[1]
        by == 2 * b[2]
    IN /\ (ay > cy) # (by > cy)
       /\ IF by > ay
          THEN (cx - ax) * (by - ay) < (cy - ay) * (bx - ax)
          ELSE (cx - ax) * (by - ay) > (cy - ay) * (bx - ax)

\* Whether pixel p is inside the closed polygon through path, by the
\* odd-even rule (QPainterPath's default fill rule).
InPolygon(path, p) ==
    LET n == Len(path)
        crossed == {i \in 1 .. n : EdgeCrossed(p, path[i], path[(i % n) + 1])}
    IN Cardinality(crossed) % 2 = 1

\* QPainter(dst).fillPath(path of the polygon, colour), composition mode SourceOver.
FillPath(dst, path, colour) ==
    [dst EXCEPT !.px =
        [p \in Pixels(dst.w, dst.h) |->
            IF InPolygon(path, p) THEN colour ELSE dst.px[p]]]

\* Whether pixel p is within width / 2 of the segment a -> b (squared
\* distances, times four).
NearSegment(p, a, b, width) ==
    LET pa == PointSub(p, a)
        pb == PointSub(p, b)
        ba == PointSub(b, a)
        l2 == ba[1] * ba[1] + ba[2] * ba[2]
        dot == pa[1] * ba[1] + pa[2] * ba[2]
        da2 == pa[1] * pa[1] + pa[2] * pa[2]
        db2 == pb[1] * pb[1] + pb[2] * pb[2]
    IN IF l2 = 0 \/ dot <= 0 THEN 4 * da2 <= width * width
       ELSE IF dot >= l2 THEN 4 * db2 <= width * width
       ELSE 4 * (da2 * l2 - dot * dot) <= width * width * l2

\* QPainter(dst).drawLine(a, b) with a solid round-capped pen.
DrawLine(dst, a, b, width, colour) ==
    [dst EXCEPT !.px =
        [p \in Pixels(dst.w, dst.h) |->
            IF NearSegment(p, a, b, width) THEN colour ELSE dst.px[p]]]

(***************************************************************************)
(* The state.                                                              *)
(***************************************************************************)
VARIABLES
    canvas,      \* the Canvas object's fields, and its widget size
    clipboard,   \* the image QApplication.clipboard() holds, or the null image
    status,      \* the status messages the last handler emitted, in order
    mouse_down,  \* whether a mouse button is held on the canvas
    op,          \* the last handler that ran
    steps        \* the commands and pointer presses so far

vars == <<canvas, clipboard, status, mouse_down, op, steps>>

\* The handlers below act on a record s: the fields of canvas, with
\* clipboard and status.
World == canvas @@ [clipboard |-> clipboard, status |-> <<>>]

Emit(s, message) == [s EXCEPT !.status = Append(@, message)]

\* Canvas.__init__
CanvasInit ==
    [width |-> CanvasW, height |-> CanvasH,
     image |-> Filled(CanvasW, CanvasH, White),
     original_image |-> Filled(CanvasW, CanvasH, White),
     current_scale |-> <<1, 1>>,
     offset_x |-> 0, offset_y |-> 0,
     tool |-> "None",
     selection_start |-> None,
     selection_path |-> <<>>,
     drawing_selection |-> FALSE,
     selected_area |-> NoImage,
     is_moving_selection |-> FALSE,
     selection_offset |-> <<0, 0>>,
     drawing |-> FALSE,
     last_point |-> <<0, 0>>,
     brush_color |-> Black,
     brush_size |-> 3,
     eraser_size |-> 10]

(***************************************************************************)
(* Canvas (src/ui/canvas.py).                                              *)
(***************************************************************************)
\* int(length * current_scale)
ScaledLength(length, scale) == (length * scale[1]) \div scale[2]

\* original_image.scaled(int(width * current_scale), int(height * current_scale), ...)
ScaledOriginal(s) ==
    Scaled(s.original_image,
           ScaledLength(s.original_image.w, s.current_scale),
           ScaledLength(s.original_image.h, s.current_scale))

update_canvas_scale(s) == [s EXCEPT !.image = ScaledOriginal(s)]

\* A tool switch that clears the path and keeps the selected area, to compare
\* set_tool against.
set_tool_keeping_area(s, tool) ==
    [s EXCEPT !.tool = tool,
              !.selection_start = None,
              !.selection_path = <<>>,
              !.drawing_selection = FALSE]

\* A tool switch that keeps the selection, to compare set_tool against.
set_tool_only(s, tool) == [s EXCEPT !.tool = tool]

set_tool(s, tool) ==
    [s EXCEPT !.tool = tool,
              !.selection_start = None,
              !.selection_path = <<>>,
              !.drawing_selection = FALSE,
              !.selected_area = NoImage]

get_selection_rect(s) ==
    IF ~PointTruthy(s.selection_start) \/ s.selection_path = <<>> THEN NullRect
    ELSE LET start == s.selection_start
             end == s.selection_path[Len(s.selection_path)]
             x1 == Min(start[1], end[1])
             y1 == Min(start[2], end[2])
             x2 == Max(start[1], end[1])
             y2 == Max(start[2], end[2])
         IN QRect(x1, y1, x2 - x1, y2 - y1)

\* The mask of the lasso or polygon: transparent, the polygon filled white.
SelectionMask(s) ==
    FillPath(Filled(s.original_image.w, s.original_image.h, Transparent),
             s.selection_path, White)

\* original_image on an ARGB buffer with no mask applied, to compare
\* MaskedOriginal against.
UnmaskedOriginal(s) ==
    DrawImageSource(Filled(s.original_image.w, s.original_image.h, Transparent),
                    <<0, 0>>, s.original_image)

\* The lasso or polygon branch of extract_selection.
MaskedOriginal(s) ==
    LET blank == Filled(s.original_image.w, s.original_image.h, Transparent)
        drawn == DrawImageSource(blank, <<0, 0>>, s.original_image)
    IN DrawImageDestinationIn(drawn, <<0, 0>>, SelectionMask(s))

extract_selection(s) ==
    IF s.selection_path = <<>> THEN Emit(s, "No selection to extract.")
    ELSE LET s1 ==
                IF s.tool \in {"lasso", "polygon"}
                THEN [s EXCEPT !.selected_area = MaskedOriginal(s)]
                ELSE IF s.tool = "rect" /\ PointTruthy(s.selection_start)
                     THEN IF RectIsValid(get_selection_rect(s))
                          THEN [s EXCEPT !.selected_area =
                                    Copy(s.original_image, get_selection_rect(s))]
                          ELSE s
                     ELSE s
         IN Emit(s1, "Selection extracted.")

copy_selection(s) ==
    IF s.selection_path = <<>> THEN Emit(s, "No selection to copy.")
    ELSE LET s1 == extract_selection(s)
         IN IF s1.selected_area # NoImage
            THEN Emit([s1 EXCEPT !.clipboard = s1.selected_area],
                      "Selection copied to clipboard.")
            ELSE s1

\* A paste position that ignores the argument, to compare PastePosition against.
PasteAtOrigin(position) == <<0, 0>>

\* position or QPoint(0, 0)
PastePosition(position) == IF PointTruthy(position) THEN position ELSE <<0, 0>>

paste_selection(s, position) ==
    IF IsNull(s.clipboard) THEN Emit(s, "Clipboard is empty.")
    ELSE LET at == PastePosition(position)
             s1 == [s EXCEPT !.original_image = DrawImage(@, at, s.clipboard)]
             s2 == [s1 EXCEPT
                       !.image = ScaledOriginal(s1),
                       !.selection_start = at,
                       !.selection_path =
                           <<at, PointAdd(at, <<s.clipboard.w, s.clipboard.h>>)>>,
                       !.selected_area = s.clipboard]
         IN Emit(s2, "Image pasted with selection.")

paintEvent(s) ==
    [s EXCEPT !.offset_x = Max((s.width - s.image.w) \div 2, 0),
              !.offset_y = Max((s.height - s.image.h) \div 2, 0)]

clear_canvas(s) ==
    LET blank == Fill(s.image, White)
    IN [s EXCEPT !.image = blank,
                 !.original_image = blank,
                 !.selected_area = NoImage,
                 !.selection_start = None,
                 !.selection_path = <<>>,
                 !.drawing_selection = FALSE,
                 !.is_moving_selection = FALSE]

map_to_scaled_image(s, pos) ==
    <<TruncDiv((pos[1] - s.offset_x) * s.current_scale[2], s.current_scale[1]),
      TruncDiv((pos[2] - s.offset_y) * s.current_scale[2], s.current_scale[1])>>

map_from_scaled_image(s, pos) ==
    <<TruncDiv(pos[1] * s.current_scale[1] + s.offset_x * s.current_scale[2],
               s.current_scale[2]),
      TruncDiv(pos[2] * s.current_scale[1] + s.offset_y * s.current_scale[2],
               s.current_scale[2])>>

finalize_selection(s) ==
    IF s.selection_path # <<>>
    THEN extract_selection(
            [s EXCEPT !.selection_path =
                [i \in 1 .. Len(s.selection_path) |->
                    map_to_scaled_image(s, s.selection_path[i])]])
    ELSE s

mousePressEvent(s, widget_pos, button) ==
    LET pos == map_to_scaled_image(s, widget_pos)
        hit == s.selected_area # NoImage /\ RectContains(get_selection_rect(s), pos)
        s1 == IF hit
              THEN [s EXCEPT !.is_moving_selection = TRUE,
                             !.selection_offset = PointSub(pos, s.selection_start)]
              ELSE [s EXCEPT !.is_moving_selection = FALSE,
                             !.selection_start = None,
                             !.selection_path = <<>>,
                             !.selected_area = NoImage]
    IN IF pos[1] # -1 /\ pos[2] # -1
       THEN IF s.tool = "rect"
            THEN [s1 EXCEPT !.selection_start = pos, !.selection_path = <<pos>>]
            ELSE IF s.tool \in {"lasso", "polygon"}
            THEN [s1 EXCEPT !.selection_path =
                                IF ~s1.drawing_selection THEN <<pos>> ELSE @,
                            !.drawing_selection = TRUE]
            ELSE IF s.tool = "None" /\ button = "LeftButton"
            THEN [s1 EXCEPT !.drawing = TRUE, !.last_point = pos]
            ELSE IF s.tool = "erase"
            THEN [s1 EXCEPT !.drawing = TRUE, !.last_point = pos]
            ELSE s1
       ELSE s

\* The stroke of mouseMoveEvent: a line from last_point to pos on original_image.
Stroke(s, pos, width, colour) ==
    LET s1 == [s EXCEPT !.original_image = DrawLine(@, s.last_point, pos, width, colour),
                        !.last_point = pos]
    IN [s1 EXCEPT !.image = ScaledOriginal(s1)]

\* A pointer-move that tests the drawing branches before the moving branch,
\* to compare mouseMoveEvent against.
mouseMoveEvent_drawing_first(s, widget_pos) ==
    LET pos == map_to_scaled_image(s, widget_pos)
    IN IF s.tool = "None" /\ s.drawing
       THEN Stroke(s, pos, s.brush_size, s.brush_color)
       ELSE IF s.tool = "erase" /\ s.drawing
       THEN Stroke(s, pos, s.eraser_size, White)
       ELSE IF s.is_moving_selection /\ s.selected_area # NoImage
       THEN [s EXCEPT !.selection_start = PointSub(pos, s.selection_offset)]
       ELSE s

mouseMoveEvent(s, widget_pos) ==
    LET pos == map_to_scaled_image(s, widget_pos)
    IN IF s.is_moving_selection /\ s.selected_area # NoImage
       THEN [s EXCEPT !.selection_start = PointSub(pos, s.selection_offset)]
       ELSE IF s.tool = "rect" /\ PointTruthy(s.selection_start)
       THEN [s EXCEPT !.selection_path = <<s.selection_start, pos>>]
       ELSE IF s.tool \in {"lasso", "polygon"} /\ s.drawing_selection
       THEN [s EXCEPT !.selection_path = Append(@, pos)]
       ELSE IF s.tool = "None" /\ s.drawing
       THEN Stroke(s, pos, s.brush_size, s.brush_color)
       ELSE IF s.tool = "erase" /\ s.drawing
       THEN Stroke(s, pos, s.eraser_size, White)
       ELSE s

mouseReleaseEvent(s) ==
    IF s.is_moving_selection
    THEN [s EXCEPT !.is_moving_selection = FALSE]
    ELSE IF s.tool \in {"rect", "lasso", "polygon"}
    THEN finalize_selection([s EXCEPT !.drawing_selection = FALSE])
    ELSE IF s.tool = "erase" \/ s.tool = "None"
    THEN [s EXCEPT !.drawing = FALSE]
    ELSE s

\* What cut_selection paints on original_image after the copy.
CutFill(s) ==
    IF s.tool = "rect" /\ Len(s.selection_path) = 2
    THEN FillRect(s.original_image, get_selection_rect(s), White)
    ELSE IF s.tool \in {"lasso", "polygon"}
    THEN DrawImage(s.original_image, <<0, 0>>, SelectionMask(s))
    ELSE s.original_image

\* A cut without the guard on an empty selection_path, to compare
\* cut_selection against.
cut_selection_unguarded(s) ==
    LET s1 == copy_selection(s)
        s2 == [s1 EXCEPT !.original_image = CutFill(s1)]
        s3 == [s2 EXCEPT !.image = ScaledOriginal(s2),
                         !.selection_path = <<>>,
                         !.selected_area = NoImage]
    IN Emit(s3, "Selection cut.")

cut_selection(s) ==
    IF s.selection_path = <<>> THEN Emit(s, "No selection to cut.")
    ELSE LET s1 == copy_selection(s)
             s2 == [s1 EXCEPT !.original_image = CutFill(s1)]
             s3 == [s2 EXCEPT !.image = ScaledOriginal(s2),
                              !.selection_path = <<>>,
                              !.selected_area = NoImage]
         IN Emit(s3, "Selection cut.")

\* max(0.1, min(5.0, scale))
ClampScale(scale) == RatMax(<<1, 10>>, RatMin(<<5, 1>>, scale))

handle_pinch(s, gesture_state, scale_factor) ==
    IF IsNull(s.original_image) THEN s
    ELSE IF gesture_state \in {"GestureStarted", "GestureUpdated"}
    THEN LET new_scale == ClampScale(RatMul(s.current_scale, scale_factor))
         IN IF new_scale # s.current_scale
            THEN update_canvas_scale([s EXCEPT !.current_scale = new_scale])
            ELSE s
    ELSE s

(***************************************************************************)
(* PhotoEditor (src/ui/menus.py): the commands that act on the canvas.     *)
(***************************************************************************)
crop_image(s) ==
    IF IsNull(s.image) THEN s
    ELSE LET crop_size == Min(s.image.w, s.image.h)
             x == (s.image.w - crop_size) \div 2
             y == (s.image.h - crop_size) \div 2
         IN [s EXCEPT !.image = Copy(s.image, QRect(x, y, crop_size, crop_size))]

resize_image(s, new_width, new_height) ==
    IF IsNull(s.image) THEN s
    ELSE LET x_offset == (new_width - s.image.w) \div 2
             y_offset == (new_height - s.image.h) \div 2
             new_image == DrawImage(Filled(new_width, new_height, White),
                                    <<x_offset, y_offset>>, s.image)
         IN [s EXCEPT !.width = new_width, !.height = new_height,
                      !.image = new_image]

rotate_image_90(s) ==
    IF IsNull(s.image) THEN s ELSE [s EXCEPT !.image = Rotated90(@)]

rotate_image_90_cc(s) ==
    IF IsNull(s.image) THEN s ELSE [s EXCEPT !.image = Rotated90cc(@)]

flip_vertical(s) ==
    IF IsNull(s.image) THEN s ELSE [s EXCEPT !.image = Mirrored(@, TRUE, FALSE)]

flip_horizontal(s) ==
    IF IsNull(s.image) THEN s ELSE [s EXCEPT !.image = Mirrored(@, FALSE, TRUE)]

new_file(s) == clear_canvas(s)

\* display_image, the file decoded to a non-null image.
display_image(s, loaded) ==
    [s EXCEPT !.original_image = loaded,
              !.current_scale = <<1, 1>>,
              !.image = Scaled(loaded, s.width, s.height),
              !.width = loaded.w,
              !.height = loaded.h]

\* The buffer save_image_to_file writes.
save_image_to_file(s) == s.image

copy_image(s) ==
    IF IsNull(s.image) THEN s ELSE [s EXCEPT !.clipboard = s.image]

paste_image(s) ==
    IF IsNull(s.clipboard) THEN s
    ELSE [s EXCEPT !.image = Scaled(s.clipboard, s.width, s.height)]

cut_image(s) ==
    IF IsNull(s.image) THEN s
    ELSE [copy_image(s) EXCEPT !.image = Fill(@, White)]

zoom_in(s) ==
    update_canvas_scale([s EXCEPT !.current_scale = RatMul(@, <<6, 5>>)])

zoom_out(s) ==
    update_canvas_scale([s EXCEPT !.current_scale = RatMul(@, <<4, 5>>)])

reset_zoom(s) ==
    IF IsNull(s.image) THEN s
    ELSE [s EXCEPT !.current_scale = <<1, 1>>,
                   !.image = Scaled(@, s.width, s.height)]

(***************************************************************************)
(* The inputs the environment offers.                                      *)
(***************************************************************************)
\* The tools of the Tools menu (create_menus), and None, the tool at start.
MenuTools == {"brush", "pencil", "erase", "rect", "lasso", "polygon"}

Tools == MenuTools \cup {"None"}

\* The widget positions pointer events arrive at.
WidgetPoints == {<<0, 0>>, <<CanvasW - 1, 0>>, <<CanvasW - 1, CanvasH>>}

Buttons == {"LeftButton", "RightButton"}

\* The positions paste_selection is called with: None (the Paste action of
\* the menu passes no position) and a point off the origin.
PastePositions == {None, <<CanvasW - 1, 0>>}

\* What another application may have left on the clipboard.
ForeignClip == Filled(1, 1, Black)

\* The images a file decodes to.
Checker(w, h) ==
    [w |-> w, h |-> h,
     px |-> [p \in Pixels(w, h) |-> IF (p[1] + p[2]) % 2 = 1 THEN Black ELSE White]]

LoadImages == {Checker(CanvasW, CanvasH), Checker(CanvasH, CanvasW)}

\* The steps of a pinch gesture: its state and its scale factor.
GestureStates == {"GestureUpdated", "GestureFinished"}

ScaleFactors == {<<5, 1>>, <<1, 5>>}

\* The sizes the Resize dialog is answered with.
ResizeSizes == {<<CanvasW + 1, CanvasH>>}

(***************************************************************************)
(* The actions: one per handler.                                           *)
(***************************************************************************)
\* The handlers of a pointer drag and of a repaint are not counted as steps.
Uncounted == {"mouseMoveEvent", "mouseReleaseEvent", "paintEvent"}

ImageTracked(img) == img.w <= MaxSide /\ img.h <= MaxSide

\* The handler `name` ran and left s.
Do(s, name) ==
    /\ steps' = IF name \in Uncounted THEN steps ELSE steps + 1
    /\ steps' <= MaxSteps
    /\ ImageTracked(s.image) /\ ImageTracked(s.original_image)
    /\ Len(s.selection_path) <= MaxPath
    /\ canvas' = [f \in DOMAIN canvas |-> s[f]]
    /\ clipboard' = s.clipboard
    /\ status' = s.status
    /\ op' = name

SetTool ==
    \E tool \in Tools :
        Do(set_tool(World, tool), "set_tool") /\ UNCHANGED mouse_down

CopySelection ==
    Do(copy_selection(World), "copy_selection") /\ UNCHANGED mouse_down

PasteSelection ==
    \E position \in PastePositions :
        Do(paste_selection(World, position), "paste_selection")
        /\ UNCHANGED mouse_down

CutSelection ==
    Do(cut_selection(World), "cut_selection") /\ UNCHANGED mouse_down

\* A repaint; one that finds the offsets as they are changes nothing.
Paint ==
    /\ paintEvent(World).offset_x # canvas.offset_x
       \/ paintEvent(World).offset_y # canvas.offset_y
    /\ Do(paintEvent(World), "paintEvent")
    /\ UNCHANGED mouse_down

MousePress ==
    /\ ~mouse_down
    /\ mouse_down' = TRUE
    /\ \E pos \in WidgetPoints, button \in Buttons :
           Do(mousePressEvent(World, pos, button), "mousePressEvent")

MouseMove ==
    /\ mouse_down
    /\ UNCHANGED mouse_down
    /\ \E pos \in WidgetPoints :
           Do(mouseMoveEvent(World, pos), "mouseMoveEvent")

MouseRelease ==
    /\ mouse_down
    /\ mouse_down' = FALSE
    /\ Do(mouseReleaseEvent(World), "mouseReleaseEvent")

Pinch ==
    \E gesture_state \in GestureStates, scale_factor \in ScaleFactors :
        Do(handle_pinch(World, gesture_state, scale_factor), "handle_pinch")
        /\ UNCHANGED mouse_down

ZoomIn == Do(zoom_in(World), "zoom_in") /\ UNCHANGED mouse_down

ZoomOut == Do(zoom_out(World), "zoom_out") /\ UNCHANGED mouse_down

ResetZoom == Do(reset_zoom(World), "reset_zoom") /\ UNCHANGED mouse_down

NewFile == Do(new_file(World), "new_file") /\ UNCHANGED mouse_down

OpenFile ==
    \E loaded \in LoadImages :
        Do(display_image(World, loaded), "display_image")
        /\ UNCHANGED mouse_down

Crop == Do(crop_image(World), "crop_image") /\ UNCHANGED mouse_down

Resize ==
    \E size \in ResizeSizes :
        Do(resize_image(World, size[1], size[2]), "resize_image")
        /\ UNCHANGED mouse_down

Rotate90 == Do(rotate_image_90(World), "rotate_image_90") /\ UNCHANGED mouse_down

Rotate90cc ==
    Do(rotate_image_90_cc(World), "rotate_image_90_cc") /\ UNCHANGED mouse_down

FlipVertical == Do(flip_vertical(World), "flip_vertical") /\ UNCHANGED mouse_down

FlipHorizontal ==
    Do(flip_horizontal(World), "flip_horizontal") /\ UNCHANGED mouse_down

CopyImage == Do(copy_image(World), "copy_image") /\ UNCHANGED mouse_down

PasteImage == Do(paste_image(World), "paste_image") /\ UNCHANGED mouse_down

CutImage == Do(cut_image(World), "cut_image") /\ UNCHANGED mouse_down

Init ==
    /\ canvas = CanvasInit
    /\ clipboard \in {NullImage, ForeignClip}
    /\ status = <<>>
    /\ mouse_down = FALSE
    /\ op = "__init__"
    /\ steps = 0

\* A session of drawing and selecting: the tools, the pointer, the
\* clipboard commands of the canvas, zooming and opening a file.
Next ==
    \/ SetTool
    \/ CopySelection
    \/ PasteSelection
    \/ CutSelection
    \/ Paint
    \/ MousePress
    \/ MouseMove
    \/ MouseRelease
    \/ ZoomIn
    \/ ZoomOut
    \/ OpenFile

Spec == Init /\ [][Next]_vars

\* A session of the image store: zooming, pinching, opening and clearing,
\* and the whole-image commands of the Image and Clipboard menus.
NextImage ==
    \/ Paint
    \/ Pinch
    \/ ZoomIn
    \/ ZoomOut
    \/ ResetZoom
    \/ NewFile
    \/ OpenFile
    \/ Crop
    \/ Resize
    \/ Rotate90
    \/ Rotate90cc
    \/ FlipVertical
    \/ FlipHorizontal
    \/ CopyImage
    \/ PasteImage
    \/ CutImage

SpecImage == Init /\ [][NextImage]_vars

(***************************************************************************)
(* The claims of the specification, C1 .. C10.                             *)
(***************************************************************************)
RatLeq(p, q) == ~RatLess(q, p)

\* C1: after any sequence of pinch updates and zoom-in / zoom-out commands,
\* starting from scale 1.0, current_scale is within [0.1, 5.0].
C1_ScaleWithinLimits ==
    /\ RatLeq(<<1, 10>>, canvas.current_scale)
    /\ RatLeq(canvas.current_scale, <<5, 1>>)

\* The selection engine's state as the specification names it.
Moving(c) == c.is_moving_selection

HasSelection(c) == c.selection_path # <<>> /\ c.selected_area # NoImage

\* C2: from every reachable state and for every tool t, set_tool(t) leaves
\* selection_path empty and selected_area null, and set_tool(t) once more
\* changes nothing.
C2_SetToolResets ==
    \A tool \in Tools :
        LET s1 == set_tool(World, tool)
        IN /\ s1.selection_path = <<>>
           /\ s1.selected_area = NoImage
           /\ set_tool(s1, tool) = s1

\* C2's case: set_tool has run while a selection was being dragged, and
\* has left no path and no area.
C2_Witness ==
    /\ op = "set_tool"
    /\ Moving(canvas)
    /\ canvas.selection_path = <<>>
    /\ canvas.selected_area = NoImage

\* The display image has the size of the original scaled by current_scale.
DisplayMatchesScale(c) ==
    /\ c.image.w = ScaledLength(c.original_image.w, c.current_scale)
    /\ c.image.h = ScaledLength(c.original_image.h, c.current_scale)

\* C3: after every load, zoom, reset zoom, pinch, clear, paste, cut and
\* stroke, the display image's width and height are
\* int(original width / height * current_scale).
C3_DisplayIsScaledOriginal ==
    (\/ op \in {"display_image", "zoom_in", "zoom_out", "reset_zoom", "handle_pinch",
                "new_file", "paste_selection", "cut_selection"}
     \/ op = "mouseMoveEvent" /\ canvas.drawing /\ canvas.tool \in {"None", "erase"})
    => DisplayMatchesScale(canvas)

\* The centre square crop_image cuts, of the image img.
CentreSquare(img) ==
    LET crop_size == Min(img.w, img.h)
    IN Copy(img, QRect((img.w - crop_size) \div 2, (img.h - crop_size) \div 2,
                       crop_size, crop_size))

\* img centred on a white image of w x h, as resize_image lays it out.
Recentred(img, w, h) ==
    DrawImage(Filled(w, h, White), <<(w - img.w) \div 2, (h - img.h) \div 2>>, img)

\* C4: every whole-image transform (crop, resize, rotate 90 / -90, flip
\* vertical / horizontal) changes the original image to the transformed
\* image, and the display image is then the original scaled: it is never
\* changed without the original.
C4_TransformsActOnOriginal ==
    [][/\ op' = "crop_image" =>
            canvas'.original_image = CentreSquare(canvas.original_image)
       /\ op' = "resize_image" =>
            canvas'.original_image =
                Recentred(canvas.original_image, canvas'.width, canvas'.height)
       /\ op' = "rotate_image_90" =>
            canvas'.original_image = Rotated90(canvas.original_image)
       /\ op' = "rotate_image_90_cc" =>
            canvas'.original_image = Rotated90cc(canvas.original_image)
       /\ op' = "flip_vertical" =>
            canvas'.original_image = Mirrored(canvas.original_image, TRUE, FALSE)
       /\ op' = "flip_horizontal" =>
            canvas'.original_image = Mirrored(canvas.original_image, FALSE, TRUE)
       /\ op' \in {"crop_image", "resize_image", "rotate_image_90",
                   "rotate_image_90_cc", "flip_vertical", "flip_horizontal"} =>
            (canvas'.image # canvas.image
                => canvas'.original_image # canvas.original_image)]_vars

\* C5: clear() leaves the original image white with the width and height it
\* had, at every scale, and leaves no selection: selection_path empty,
\* selected_area and selection_start null, drawing_selection and
\* is_moving_selection false.
C5_ClearKeepsSize ==
    [][op' = "new_file" =>
        /\ canvas'.original_image =
               Filled(canvas.original_image.w, canvas.original_image.h, White)
        /\ canvas'.selection_path = <<>>
        /\ canvas'.selected_area = NoImage
        /\ canvas'.selection_start = None
        /\ ~canvas'.drawing_selection
        /\ ~canvas'.is_moving_selection]_vars

\* The rectangle spanned by the corners a and b, normalised.
SpannedRect(a, b) ==
    QRect(Min(a[1], b[1]), Min(a[2], b[2]), Abs(b[1] - a[1]), Abs(b[2] - a[2]))

\* A rect selection [a, b] with selection_start = a and non-zero width and
\* height.
RectSelected(c) ==
    /\ c.tool = "rect"
    /\ c.selection_start # None
    /\ Len(c.selection_path) = 2
    /\ c.selection_path[1] = c.selection_start
    /\ c.selection_path[1][1] # c.selection_path[2][1]
    /\ c.selection_path[1][2] # c.selection_path[2][2]

\* buffer holds the pixels of rectangle r of img (where r lies on img).
IsRegionOf(buffer, img, r) ==
    /\ buffer.w = r.w
    /\ buffer.h = r.h
    /\ \A p \in Pixels(r.w, r.h) :
          InImage(img, <<r.x + p[1], r.y + p[2]>>)
              => buffer.px[p] = img.px[<<r.x + p[1], r.y + p[2]>>]

\* C6: with tool rect, selection_start = a and selection_path = [a, b] of
\* non-zero width and height, extract_selection sets selected_area to a
\* buffer of |bx-ax| by |by-ay| pixels equal to the region of the original
\* image with top-left corner (min(ax,bx), min(ay,by)), in either order of
\* the corners, and leaves the original image unchanged.
C6_RectExtractCopiesRegion ==
    RectSelected(canvas) =>
        LET s1 == extract_selection(World)
            r == SpannedRect(canvas.selection_path[1], canvas.selection_path[2])
        IN /\ IsRegionOf(s1.selected_area, canvas.original_image, r)
           /\ s1.original_image = canvas.original_image

\* C7: with tool lasso or polygon and a non-empty path, extract_selection
\* yields a selected_area of the original image's size in which every pixel
\* inside the closed polygon of the path is opaque and equal to the original
\* image's pixel and every pixel outside it is transparent.
C7_LassoExtractMasks ==
    (canvas.tool \in {"lasso", "polygon"} /\ canvas.selection_path # <<>>) =>
        LET area == extract_selection(World).selected_area
        IN /\ area.w = canvas.original_image.w
           /\ area.h = canvas.original_image.h
           /\ \A p \in Pixels(area.w, area.h) :
                 IF InPolygon(canvas.selection_path, p)
                 THEN area.px[p] = canvas.original_image.px[p]
                      /\ area.px[p] # Transparent
                 ELSE area.px[p] = Transparent

\* C7's case: a lasso of three points has been released and extracted, with
\* a black pixel of the image inside it and a pixel outside it.
C7_Witness ==
    /\ op = "mouseReleaseEvent"
    /\ canvas.tool = "lasso"
    /\ Len(canvas.selection_path) = 3
    /\ canvas.selected_area # NoImage
    /\ \E p, q \in DOMAIN canvas.selected_area.px :
          /\ canvas.selected_area.px[p] = Black
          /\ canvas.selected_area.px[q] = Transparent

\* C8: cut on a finalized rect selection (tool rect, two-point path,
\* non-zero area) leaves that rectangle of the original image white and
\* every pixel outside it unchanged, leaves on the clipboard the pixels the
\* rectangle had before, and leaves selection_path empty and selected_area
\* null.
C8_CutFillsRect ==
    RectSelected(canvas) =>
        LET s1 == cut_selection(World)
            r == SpannedRect(canvas.selection_path[1], canvas.selection_path[2])
        IN /\ s1.original_image.w = canvas.original_image.w
           /\ s1.original_image.h = canvas.original_image.h
           /\ \A p \in Pixels(canvas.original_image.w, canvas.original_image.h) :
                 s1.original_image.px[p] =
                     IF RectContains(r, p) THEN White ELSE canvas.original_image.px[p]
           /\ IsRegionOf(s1.clipboard, canvas.original_image, r)
           /\ s1.selection_path = <<>>
           /\ s1.selected_area = NoImage

\* Where paste(p) pastes: p, the origin when p is omitted.
PasteTarget(position) == IF position = None THEN <<0, 0>> ELSE position

\* C9: paste(p) with a non-empty clipboard image of w by h draws the image on
\* the original image at p and sets selection_path to [p, p + (w, h)],
\* selection_start to p and selected_area to the pasted buffer, for every
\* tool and every prior selection state.
C9_PasteSelectsPasted ==
    ~IsNull(clipboard) =>
        \A position \in PastePositions \cup WidgetPoints :
            LET s1 == paste_selection(World, position)
                at == PasteTarget(position)
            IN /\ s1.selection_path =
                      <<at, <<at[1] + clipboard.w, at[2] + clipboard.h>>>>
               /\ s1.selection_start = at
               /\ s1.selected_area = clipboard
               /\ s1.original_image.w = canvas.original_image.w
               /\ s1.original_image.h = canvas.original_image.h
               /\ \A p \in Pixels(canvas.original_image.w, canvas.original_image.h) :
                     LET q == <<p[1] - at[1], p[2] - at[2]>>
                     IN s1.original_image.px[p] =
                            IF InImage(clipboard, q) /\ clipboard.px[q] # Transparent
                            THEN clipboard.px[q]
                            ELSE canvas.original_image.px[p]

\* C9's case: with the lasso tool chosen, a paste away from the origin has
\* drawn the clipboard's black pixel and selected it.
C9_Witness ==
    /\ op = "paste_selection"
    /\ canvas.tool = "lasso"
    /\ canvas.selection_start = <<CanvasW - 1, 0>>
    /\ canvas.selection_path =
           <<<<CanvasW - 1, 0>>, <<CanvasW - 1 + clipboard.w, clipboard.h>>>>
    /\ canvas.selected_area = clipboard
    /\ InImage(canvas.original_image, <<CanvasW - 1, 0>>)
    /\ canvas.original_image.px[<<CanvasW - 1, 0>>] = Black

\* C10: after any successful paste, the paste with the position omitted and
\* the Paste menu action included, the next pointer-down at an image point
\* inside the pasted image's bounding rectangle sets is_moving_selection.
C10_PastedIsMovable ==
    ~IsNull(clipboard) =>
        \A position \in PastePositions, widget_pos \in WidgetPoints :
            LET s1 == paintEvent(paste_selection(World, position))
                at == PasteTarget(position)
                pos == map_to_scaled_image(s1, widget_pos)
            IN RectContains(QRect(at[1], at[2], clipboard.w, clipboard.h), pos)
                   => Moving(mousePressEvent(s1, widget_pos, "LeftButton"))

\* s1 is the state s with one status message emitted and nothing else changed.
OnlyEmitted(s, s1) ==
    /\ Len(s1.status) = Len(s.status) + 1
    /\ [s1 EXCEPT !.status = s.status] = s

\* C11: copy, cut and extract with an empty selection_path, and paste with an
\* empty clipboard, each emit exactly one status message and change nothing
\* else: images, selection fields, tool, scale and clipboard are as before.
C11_EmptyIsNoOp ==
    /\ canvas.selection_path = <<>> =>
          /\ OnlyEmitted(World, copy_selection(World))
          /\ OnlyEmitted(World, cut_selection(World))
          /\ OnlyEmitted(World, extract_selection(World))
    /\ IsNull(clipboard) =>
          \A position \in PastePositions :
              OnlyEmitted(World, paste_selection(World, position))

\* C11's case: with the rect tool, an empty clipboard and no selection path
\* a cut was issued, and only reported it.
C11_Witness ==
    /\ op = "cut_selection"
    /\ status = <<"No selection to cut.">>
    /\ canvas.selection_path = <<>>
    /\ canvas.tool = "rect"
    /\ IsNull(clipboard)

\* C12: with tool rect, a pointer-down that starts a rectangle, followed at
\* once by the pointer-up at the same widget point, leaves selected_area
\* null, at every current_scale and with every pair of centering offsets.
C12_ClickSelectsNothing ==
    [][(/\ op = "mousePressEvent"
        /\ op' = "mouseReleaseEvent"
        /\ canvas.tool = "rect"
        /\ ~canvas.is_moving_selection
        /\ canvas.selected_area = NoImage
        /\ Len(canvas.selection_path) = 1)
       => canvas'.selected_area = NoImage]_vars

\* C13: the buffer the Save command writes is the original image, same
\* width, height and pixels, at every current_scale.
C13_SaveWritesOriginal == save_image_to_file(World) = canvas.original_image

\* C14: the active tool is always one of none, erase, rect, lasso, polygon,
\* after every tool-selection action the menus offer.
C14_ToolIsKnown == canvas.tool \in {"None", "erase", "rect", "lasso", "polygon"}

\* C15: set_tool(t) issued in any state, a selection being dragged included,
\* leaves is_moving_selection and drawing_selection both false.
C15_SetToolLeavesIdle ==
    \A tool \in Tools :
        LET s1 == set_tool(World, tool)
        IN ~s1.is_moving_selection /\ ~s1.drawing_selection

\* A selection is being drawn: the button is held with a selection tool, a
\* path has been started and no selection is being moved.
Selecting(c) ==
    /\ mouse_down
    /\ c.tool \in {"rect", "lasso", "polygon"}
    /\ ~c.is_moving_selection
    /\ c.selection_path # <<>>

\* C16: a pointer-up in Selecting does not change the points of
\* selection_path, at every current_scale and with every offsets.
C16_ReleaseKeepsPath ==
    [][(op' = "mouseReleaseEvent" /\ Selecting(canvas))
       => canvas'.selection_path = canvas.selection_path]_vars

\* The smallest rectangle holding every point of path, as a QRect whose
\* corners are the extreme points.
BoundingRect(path) ==
    LET xs == {path[i][1] : i \in 1 .. Len(path)}
        ys == {path[i][2] : i \in 1 .. Len(path)}
        x1 == CHOOSE x \in xs : \A o \in xs : x <= o
        x2 == CHOOSE x \in xs : \A o \in xs : x >= o
        y1 == CHOOSE y \in ys : \A o \in ys : y <= o
        y2 == CHOOSE y \in ys : \A o \in ys : y >= o
    IN QRect(x1, y1, x2 - x1, y2 - y1)

\* C17: for every selection tool, once a selection has been finalized by a
\* pointer-up (selected_area non-null), a pointer-down at an image point
\* inside the selection's bounding rectangle sets is_moving_selection and
\* records selection_offset = point - selection_start.  Stated for the
\* selections drawn with the pointer: nothing can have been pasted.
C17_FinalizedIsMovable ==
    (/\ op = "mouseReleaseEvent"
     /\ IsNull(clipboard)
     /\ canvas.tool \in {"rect", "lasso", "polygon"}
     /\ canvas.selected_area # NoImage
     /\ canvas.selection_path # <<>>
     /\ paintEvent(World) = World) =>
        \A widget_pos \in WidgetPoints :
            LET pos == map_to_scaled_image(World, widget_pos)
                s1 == mousePressEvent(World, widget_pos, "LeftButton")
            IN RectContains(BoundingRect(canvas.selection_path), pos) =>
                   /\ Moving(s1)
                   /\ canvas.selection_start # None
                   /\ s1.selection_offset = PointSub(pos, canvas.selection_start)

\* C18: a pointer-down that enters Moving leaves selection_path,
\* selected_area and the original image unchanged, for every active tool.
C18_MovingPressKeepsSelection ==
    [][(op' = "mousePressEvent" /\ ~Moving(canvas) /\ Moving(canvas'))
       => /\ canvas'.selection_path = canvas.selection_path
          /\ canvas'.selected_area = canvas.selected_area
          /\ canvas'.original_image = canvas.original_image]_vars

\* Moving as the specification defines it: a finalized selection, one with a
\* selected_area, is being dragged.
DraggingSelection(c) == c.is_moving_selection /\ c.selected_area # NoImage

\* C19: a pointer-move while Moving sets selection_start = point - offset and
\* leaves selected_area, selection_path and the original image unchanged,
\* also when the tool is none or erase and the drawing flag is set.
C19_MoveOnlyMovesAnchor ==
    [][(op' = "mouseMoveEvent" /\ DraggingSelection(canvas))
       => /\ \E widget_pos \in WidgetPoints :
                canvas'.selection_start =
                    PointSub(map_to_scaled_image(World, widget_pos),
                             canvas.selection_offset)
          /\ canvas'.selected_area = canvas.selected_area
          /\ canvas'.selection_path = canvas.selection_path
          /\ canvas'.original_image = canvas.original_image]_vars

\* C19's case: with tool none and the drawing flag set, a pointer-move has
\* dragged the pasted selection from where it was pasted to the origin.
C19_Witness ==
    /\ op = "mouseMoveEvent"
    /\ DraggingSelection(canvas)
    /\ canvas.tool = "None"
    /\ canvas.drawing
    /\ canvas.selection_path = <<<<CanvasW - 1, 0>>, <<CanvasW, 1>>>>
    /\ canvas.selection_start = <<0, 0>>

\* C20: after every pointer-up drawing is false, whatever the tool and the
\* selection state at the release.
C20_ReleaseEndsDrawing == op = "mouseReleaseEvent" => ~canvas.drawing

\* C21: for every widget point, a pointer-down with tool none or erase sets
\* drawing and sets last_point to the point mapped to image space: no
\* pointer position is dropped.
C21_PressStartsStroke ==
    (canvas.tool \in {"None", "erase"} /\ ~mouse_down) =>
        \A widget_pos \in WidgetPoints :
            LET s1 == mousePressEvent(World, widget_pos, "LeftButton")
            IN /\ s1.drawing
               /\ s1.last_point = map_to_scaled_image(World, widget_pos)

\* The centering offsets for the widget's size and the display image's size.
OffsetsCurrent(c) ==
    /\ c.offset_x = Max((c.width - c.image.w) \div 2, 0)
    /\ c.offset_y = Max((c.height - c.image.h) \div 2, 0)

\* C22: whenever a pointer event is mapped to image space, offset_x and
\* offset_y are max((widget size - display size) / 2, 0) for the current
\* widget and display image, under every interleaving of zoom, load, paint
\* and pointer events.
C22_OffsetsNeverStale ==
    [][op' \in {"mousePressEvent", "mouseMoveEvent"} => OffsetsCurrent(canvas)]_vars

\* The image points map_from_scaled_image is asked about.
ImagePoints == {<<x, y>> : x \in 0 .. CanvasW, y \in 0 .. CanvasH}

\* r is an integer nearest to the fraction n / d, d positive.
IsNearest(r, n, d) == 2 * Abs(r * d - n) <= d

\* C23: map_from_scaled_image(p) is p * current_scale + offset rounded to the
\* nearest integer on each axis, for every image point p and every scale.
C23_ToWidgetRounds ==
    \A p \in ImagePoints :
        LET q == map_from_scaled_image(World, p)
            sn == canvas.current_scale[1]
            sd == canvas.current_scale[2]
        IN /\ IsNearest(q[1], p[1] * sn + canvas.offset_x * sd, sd)
           /\ IsNearest(q[2], p[2] * sn + canvas.offset_y * sd, sd)

\* C24: during Selecting, each pointer-move with tool rect sets
\* selection_path to the two points [start, point], for every start point,
\* the image origin included; each pointer-move with tool lasso or polygon
\* appends one point and keeps the earlier points as a prefix.
C24_MoveExtendsPath ==
    [][(op' = "mouseMoveEvent" /\ Selecting(canvas))
       => \E widget_pos \in WidgetPoints :
              LET pos == map_to_scaled_image(World, widget_pos)
              IN /\ (canvas.tool = "rect" /\ canvas.selection_start # None)
                        => canvas'.selection_path = <<canvas.selection_start, pos>>
                 /\ (canvas.tool \in {"lasso", "polygon"} /\ canvas.drawing_selection)
                        => canvas'.selection_path = Append(canvas.selection_path, pos)]_vars

\* A selection as paste leaves it: two path points spanning the pasted
\* image from selection_start, with the pasted buffer as selected_area.
PastedSelection(c) ==
    /\ Len(c.selection_path) = 2
    /\ c.selection_start = c.selection_path[1]
    /\ c.selected_area # NoImage
    /\ c.selection_path[2] =
           PointAdd(c.selection_path[1], <<c.selected_area.w, c.selected_area.h>>)

\* C25: cut with a non-empty selection_path, here a selection created by
\* paste while the tool is none or erase, publishes the selected pixels to
\* the clipboard, fills the selected region of the original image with
\* white, clears the selection and reports 'Selection cut.'.
C25_CutFillsUnderEveryTool ==
    (canvas.tool \in {"None", "erase"} /\ PastedSelection(canvas)) =>
        LET s1 == cut_selection(World)
            r == SpannedRect(canvas.selection_path[1], canvas.selection_path[2])
        IN /\ s1.clipboard = canvas.selected_area
           /\ s1.status # <<>>
           /\ s1.status[Len(s1.status)] = "Selection cut."
           /\ s1.selection_path = <<>>
           /\ s1.selected_area = NoImage
           /\ \A p \in Pixels(canvas.original_image.w, canvas.original_image.h) :
                 RectContains(r, p) => s1.original_image.px[p] = White

\* C26: in every reachable state a non-null selected_area implies a
\* non-empty selection_path: set_tool, clear, cut and a click outside the
\* selection never clear one of the two without the other.
C26_AreaImpliesPath ==
    /\ canvas.selected_area # NoImage => canvas.selection_path # <<>>
    /\ LET s1 == clear_canvas(World)
       IN s1.selected_area # NoImage => s1.selection_path # <<>>

\* C26's case: a selected area is held while a pointer-down inside it has
\* replaced the path by its one point.
C26_Witness ==
    /\ op = "mousePressEvent"
    /\ canvas.selected_area # NoImage
    /\ canvas.is_moving_selection
    /\ Len(canvas.selection_path) = 1

\* The number of activities in progress: moving a selection, drawing a
\* selection, drawing a stroke.
Activities(c) ==
    Cardinality({a \in {"is_moving_selection", "drawing_selection", "drawing"} : c[a]})

\* C27: in every reachable state at most one of is_moving_selection,
\* drawing_selection and drawing is true.
C27_OneActivity == Activities(canvas) <= 1

\* A finalized rect selection [a, b] that lies inside the original image.
RectSelectedInside(c) ==
    /\ RectSelected(c)
    /\ c.selected_area # NoImage
    /\ \A i \in 1 .. 2 :
          /\ 0 <= c.selection_path[i][1] /\ c.selection_path[i][1] <= c.original_image.w
          /\ 0 <= c.selection_path[i][2] /\ c.selection_path[i][2] <= c.original_image.h

\* C28: with a finalized rect selection inside the original image, copy
\* followed by paste at the rectangle's top-left corner leaves every pixel
\* of the original image unchanged, and the resulting selection_path bounds
\* the same rectangle.
C28_CopyPasteRoundTrip ==
    RectSelectedInside(canvas) =>
        LET r == SpannedRect(canvas.selection_path[1], canvas.selection_path[2])
            s1 == copy_selection(World)
            s2 == paste_selection(s1, <<r.x, r.y>>)
        IN /\ s2.original_image = canvas.original_image
           /\ Len(s2.selection_path) = 2
           /\ SpannedRect(s2.selection_path[1], s2.selection_path[2]) = r

====
